---- MODULE Spec2Model ----
(***************************************************************************)
(* Board / card collaboration model of blimp_boards:                       *)
(*   boards/models.py  Board, BoardCollaborator, BoardCollaboratorRequest  *)
(*   cards/models.py   Card, cards_changed                                 *)
(*   notifications/types.py  NOTIFICATION_TYPES, get_notification_type     *)
(* The persistent store is a set of rows per table.  A caller is a process *)
(* holding an in-memory model instance; multi-statement methods (save,     *)
(* accept) are sequences of store statements, one action per statement.    *)
(***************************************************************************)
EXTENDS FiniteSets, Integers, Sequences, TLC

\* ---------------------------------------------------------------- bounds
MaxBoards == 2
MaxRequests == 2
MaxInvited == 2
MaxCollaborators == 3
MaxMails == 1
MaxCards == 3
MaxStackCards == 4
MaxStacks == 2
MaxObjs == 2
MaxNotified == 1
MaxLookups == 2

\* ------------------------------------------------------- fixed universe
None == "None"
Null == 0

Users == {"u1", "u2", "u3"}
Accounts == {"a1", "a2"}
Procs == {"p1", "p2"}

\* users.User profile columns
UserFirstName == [u \in Users |-> CASE u = "u1" -> "Ann" [] u = "u2" -> "Bob" [] OTHER -> "Cy"]
UserLastName == [u \in Users |-> CASE u = "u1" -> "Ash" [] u = "u2" -> "Birch" [] OTHER -> "Cedar"]
UserEmail == [u \in Users |-> CASE u = "u1" -> "ann@x" [] u = "u2" -> "bob@x" [] OTHER -> ""]

\* accounts.Account.owner.user
AccountOwnerUser == [a \in Accounts |-> IF a = "a1" THEN "u1" ELSE "u2"]

READ_PERMISSION == "read"
WRITE_PERMISSION == "write"
PERMISSION_CHOICES == {READ_PERMISSION, WRITE_PERMISSION}

VARIABLES
    boards,         \* boards_board rows
    collaborators,  \* boards_boardcollaborator rows
    requests,       \* boards_boardcollaboratorrequest rows
    request_seq,    \* primary keys handed out for request rows
    invited_users,  \* invitations_inviteduser rows
    invites,        \* ids of invited users whose send_invite() ran
    outbox,         \* mails handed to send_mail
    pc,             \* per caller: position inside save()/accept()
    held,           \* per caller: the in-memory BoardCollaboratorRequest
    local,          \* per caller: accept()'s invited_user / board_collaborator
    lastOp,         \* the last call that returned, and how
    cards,          \* cards_card rows
    through,        \* cards_card_cards rows: <<from_card, to_card>>
    previews,       \* calls made to queue_previews
    notified,       \* calls made to notify.send
    notification_types,  \* the module's NOTIFICATION_TYPES list
    lookups         \* calls made to get_notification_type, with what came back

vars == <<boards, collaborators, requests, request_seq, invited_users,
          invites, outbox, pc, held, local, lastOp, cards, through, previews,
          notified, notification_types, lookups>>

cardVars == <<cards, through, previews, notified>>

typeVars == <<notification_types, lookups>>

storeVars == <<boards, collaborators, requests, request_seq, invited_users,
               invites, outbox>>

\* ---------------------------------------------------------------- Board
BoardIds == {b.id : b \in boards}

BoardOf(id) == CHOOSE b \in boards : b.id = id

BoardOwnerUser(id) == AccountOwnerUser[BoardOf(id).account]

\* is_user_collaborator whose 'read' filter keeps only the 'read' rows
is_user_collaborator_ReadOnly(board, user, permission) ==
    LET byUser == {c \in collaborators : c.board = board /\ c.user = user}
        filtered ==
            IF permission = READ_PERMISSION
            THEN {c \in byUser : c.permission = READ_PERMISSION}
            ELSE IF permission = WRITE_PERMISSION
            THEN {c \in byUser : c.permission = WRITE_PERMISSION}
            ELSE byUser
    IN filtered # {}

\* Board.is_user_collaborator(user, permission=None)
is_user_collaborator(board, user, permission) ==
    LET byUser == {c \in collaborators : c.board = board /\ c.user = user}
        filtered ==
            IF permission = READ_PERMISSION
            THEN {c \in byUser : c.permission = WRITE_PERMISSION
                                 \/ c.permission = READ_PERMISSION}
            ELSE IF permission = WRITE_PERMISSION
            THEN {c \in byUser : c.permission = WRITE_PERMISSION}
            ELSE byUser
    IN filtered # {}

\* ---------------------------------------------------- BoardCollaborator
\* a clean that only refuses an instance with neither column set
BoardCollaborator_clean_NeitherOnly(inst) ==
    ~(inst.user = None /\ inst.invited_user = Null)

\* BoardCollaborator.clean
BoardCollaborator_clean(inst) ==
    /\ ~(inst.user # None /\ inst.invited_user # Null)
    /\ ~(inst.user = None /\ inst.invited_user = Null)

\* the messages of the ValidationError that clean raises
BoardCollaborator_clean_errors(inst) ==
    IF inst.user # None /\ inst.invited_user # Null
    THEN <<"Both user and invited_user cannot be set together.">>
    ELSE IF inst.user = None /\ inst.invited_user = Null
    THEN <<"Either user or invited_user must be set.">>
    ELSE <<>>

\* unique_together of BoardCollaborator; a NULL column never conflicts
BoardCollaborator_unique(rows, inst) ==
    /\ inst.user # None =>
         ~\E c \in rows : c.board = inst.board /\ c.user = inst.user
    /\ inst.invited_user # Null =>
         ~\E c \in rows : c.board = inst.board /\ c.invited_user = inst.invited_user

\* BoardCollaborator.save: full_clean() accepts the instance
BoardCollaborator_full_clean(rows, inst) ==
    /\ inst.permission \in PERMISSION_CHOICES
    /\ BoardCollaborator_clean(inst)
    /\ BoardCollaborator_unique(rows, inst)

\* a row is identified by its unique (board, user, invited_user) columns
NewCollaborator(board, user, invited_user, permission) ==
    [board |-> board, user |-> user, invited_user |-> invited_user,
     permission |-> permission]

\* create_owner_collaborator granting the owner 'read'
create_owner_collaborator_Read(rows, instance, created) ==
    IF created
    THEN rows \cup {NewCollaborator(instance.id,
                                    AccountOwnerUser[instance.account],
                                    Null, READ_PERMISSION)}
    ELSE rows

\* post_save receiver of Board
create_owner_collaborator(rows, instance, created) ==
    IF created
    THEN rows \cup {NewCollaborator(instance.id,
                                    AccountOwnerUser[instance.account],
                                    Null, WRITE_PERMISSION)}
    ELSE rows

Idle(p) == pc[p] = "idle"

\* what a finished call returned or raised
Done(op, p, result) ==
    [op |-> op, proc |-> p, result |-> result, args |-> <<>>]

\* the same for a call on a card, with the card it was made on
DoneCard(op, args, result) ==
    [op |-> op, proc |-> "p1", result |-> result, args |-> args]

\* Board.objects.create(...): INSERT, then post_save(created=True)
CreateBoard(p, account) ==
    /\ Idle(p)
    /\ Cardinality(boards) < MaxBoards
    /\ Cardinality(collaborators) < MaxCollaborators
    /\ LET b == [id |-> Cardinality(boards) + 1, account |-> account,
                 is_shared |-> FALSE]
       IN /\ boards' = boards \cup {b}
          /\ collaborators' = create_owner_collaborator(collaborators, b, TRUE)
    /\ lastOp' = Done("create_board", p, "ok")
    /\ UNCHANGED <<requests, request_seq, invited_users, invites, outbox,
                   pc, held, local, cardVars, typeVars>>

\* board.save() on a stored board: UPDATE, then post_save(created=False)
UpdateBoard(p, id) ==
    /\ Idle(p)
    /\ id \in BoardIds
    /\ LET old == BoardOf(id)
           b == [old EXCEPT !.is_shared = ~old.is_shared]
       IN /\ boards' = (boards \ {old}) \cup {b}
          /\ collaborators' = create_owner_collaborator(collaborators, b, FALSE)
    /\ lastOp' = Done("update_board", p, "ok")
    /\ UNCHANGED <<requests, request_seq, invited_users, invites, outbox,
                   pc, held, local, cardVars, typeVars>>

\* BoardCollaborator(...).save() of a new instance
SaveCollaborator(p, board, user, invited_user, permission) ==
    /\ Idle(p)
    /\ board \in BoardIds
    /\ Cardinality(collaborators) < MaxCollaborators
    /\ LET inst == NewCollaborator(board, user, invited_user, permission)
       IN IF BoardCollaborator_full_clean(collaborators, inst)
          THEN /\ collaborators' = collaborators \cup {inst}
               /\ lastOp' = Done("save_collaborator", p, "ok")
          ELSE /\ collaborators' = collaborators
               /\ lastOp' = [Done("save_collaborator", p, "ValidationError")
                               EXCEPT !.args =
                                 BoardCollaborator_clean_errors(inst)]
    /\ UNCHANGED <<boards, requests, request_seq, invited_users, invites,
                   outbox, pc, held, local, cardVars, typeVars>>

\* ------------------------------------------- BoardCollaboratorRequest
NoRequest == [id |-> Null, first_name |-> "", last_name |-> "", email |-> "",
              user |-> None, board |-> Null]

\* accept()'s locals, and the table sizes its caller saw on entry
NoLocal == [invited_user |-> Null, board_collaborator |-> Null,
            invited_before |-> 0, collaborators_before |-> 0]

HasInstance(p) == held[p].board # Null

\* values a caller puts in a new request
CallerNames == {<<"Zed", "Zane">>}
CallerEmails == {"", "bob@x", "new@x"}
CallerUsers == {None, "u2"}

\* User.objects.get(email=...): the users matching the email
UsersByEmail(email) == {u \in Users : UserEmail[u] = email}

\* a save that binds the user but keeps the caller's names and email
BindUser_KeepCallerValues(inst) ==
    LET found == UsersByEmail(inst.email)
        user == IF inst.user # None THEN inst.user
                ELSE IF Cardinality(found) = 1 THEN CHOOSE u \in found : TRUE
                ELSE None
    IN [inst EXCEPT !.user = user]

\* BoardCollaboratorRequest.save, lines 158-167: bind and copy the profile
BindUser(inst) ==
    LET found == UsersByEmail(inst.email)
        user == IF inst.user # None THEN inst.user
                ELSE IF Cardinality(found) = 1 THEN CHOOSE u \in found : TRUE
                ELSE None
    IN IF user # None
       THEN [inst EXCEPT !.user = user,
                         !.first_name = UserFirstName[user],
                         !.last_name = UserLastName[user],
                         !.email = UserEmail[user]]
       ELSE inst

\* User.objects.get raises MultipleObjectsReturned, which save() does not catch
LookupRaises(inst) == inst.user = None /\ Cardinality(UsersByEmail(inst.email)) > 1

\* BoardCollaboratorRequest.clean
BoardCollaboratorRequest_clean(inst) == ~(inst.user = None /\ inst.email = "")

\* validate_unique() of full_clean(): a check with a None value is skipped
BoardCollaboratorRequest_validate_unique(rows, inst) ==
    /\ ~\E r \in rows : r.email = inst.email /\ r.board = inst.board
    /\ inst.user # None =>
         ~\E r \in rows : r.user = inst.user /\ r.board = inst.board

\* a table created without the unique constraints
BoardCollaboratorRequest_unique_together_Absent(rows, inst) == TRUE

\* the table's UNIQUE (email, board_id) and UNIQUE (user_id, board_id)
BoardCollaboratorRequest_unique_together(rows, inst) ==
    /\ ~\E r \in rows : r.email = inst.email /\ r.board = inst.board
    /\ inst.user # None =>
         ~\E r \in rows : r.user = inst.user /\ r.board = inst.board

BoardCollaboratorRequest_full_clean(rows, inst) ==
    /\ BoardCollaboratorRequest_clean(inst)
    /\ BoardCollaboratorRequest_validate_unique(rows, inst)

\* save() of a new request, lines 156-169: lookup, copy, full_clean()
save_clean(p, names, email, user, board) ==
    /\ Idle(p)
    /\ board \in BoardIds
    /\ request_seq < MaxRequests
    /\ LET inst == [id |-> Null, first_name |-> names[1],
                    last_name |-> names[2], email |-> email, user |-> user,
                    board |-> board]
           bound == BindUser(inst)
       IN IF LookupRaises(inst)
          THEN /\ held' = [held EXCEPT ![p] = NoRequest]
               /\ pc' = pc
               /\ lastOp' = Done("save", p, "MultipleObjectsReturned")
          ELSE IF BoardCollaboratorRequest_full_clean(requests, bound)
          THEN /\ held' = [held EXCEPT ![p] = bound]
               /\ pc' = [pc EXCEPT ![p] = "save_insert"]
               /\ lastOp' = lastOp
          ELSE /\ held' = [held EXCEPT ![p] = NoRequest]
               /\ pc' = pc
               /\ lastOp' = Done("save", p, "ValidationError")
    /\ UNCHANGED <<storeVars, local, cardVars, typeVars>>

\* save(), line 171: the INSERT, under the table's unique constraints
save_insert(p) ==
    /\ pc[p] = "save_insert"
    /\ pc' = [pc EXCEPT ![p] = "idle"]
    /\ IF BoardCollaboratorRequest_unique_together(requests, held[p])
       THEN LET row == [held[p] EXCEPT !.id = request_seq + 1]
            IN /\ requests' = requests \cup {row}
               /\ request_seq' = request_seq + 1
               /\ held' = [held EXCEPT ![p] = row]
               /\ lastOp' = Done("save", p, "ok")
       ELSE /\ UNCHANGED <<requests, request_seq>>
            /\ held' = [held EXCEPT ![p] = NoRequest]
            /\ lastOp' = Done("save", p, "IntegrityError")
    /\ UNCHANGED <<boards, collaborators, invited_users, invites, outbox,
                   local, cardVars, typeVars>>

\* BoardCollaboratorRequest.objects.get(pk=...)
get_request(p, r) ==
    /\ Idle(p)
    /\ r \in requests
    /\ held[p] # r
    /\ held' = [held EXCEPT ![p] = r]
    /\ UNCHANGED <<storeVars, pc, local, lastOp, cardVars, typeVars>>

\* Model.delete(): refuses an instance without a primary key
DeleteRaises(inst) == inst.id = Null

\* a delete filtered by the board instead of the primary key
DeleteRow_ByBoard(rows, inst) == {r \in rows : r.board # inst.board}

DeleteRow(rows, inst) == {r \in rows : r.id # inst.id}

\* accept(), lines 190-197: the columns of the InvitedUser to create
invited_user_data(inst) ==
    [id |-> Null,
     first_name |-> inst.first_name,
     last_name |-> inst.last_name,
     email |-> inst.email,
     user |-> inst.user,
     account |-> BoardOf(inst.board).account,
     created_by |-> BoardOwnerUser(inst.board),
     board_collaborators |-> {}]

\* accept() making the request's registered user the collaborator
accept_board_collaborator_ForUser(inst, invited_user) ==
    IF inst.user # None
    THEN NewCollaborator(inst.board, inst.user, Null, READ_PERMISSION)
    ELSE NewCollaborator(inst.board, None, invited_user, READ_PERMISSION)

\* accept() granting the invited user 'write'
accept_board_collaborator_Write(inst, invited_user) ==
    NewCollaborator(inst.board, None, invited_user, WRITE_PERMISSION)

\* accept(), lines 201-205: the BoardCollaborator to create
accept_board_collaborator(inst, invited_user) ==
    NewCollaborator(inst.board, None, invited_user, READ_PERMISSION)

\* the invitations_inviteduser table: no uniqueness constraint is
\* documented for it, so any row can be inserted
InvitedUser_unique(rows, inst) == TRUE

\* accept(), lines 188-199: InvitedUser.objects.create(**invited_user_data)
accept_create_invited_user(p, fails) ==
    /\ Idle(p)
    /\ HasInstance(p)
    /\ Cardinality(invited_users) < MaxInvited
    /\ Cardinality(collaborators) < MaxCollaborators
    /\ IF fails \/ ~InvitedUser_unique(invited_users,
                                       invited_user_data(held[p]))
       THEN /\ lastOp' = Done("accept", p, "InvitedUserError")
            /\ UNCHANGED <<invited_users, pc, local>>
       ELSE LET iu == [invited_user_data(held[p]) EXCEPT
                         !.id = Cardinality(invited_users) + 1]
            IN /\ invited_users' = invited_users \cup {iu}
               /\ local' = [local EXCEPT ![p] =
                             [invited_user |-> iu.id,
                              board_collaborator |-> Null,
                              invited_before |-> Cardinality(invited_users),
                              collaborators_before |-> Cardinality(collaborators)]]
               /\ pc' = [pc EXCEPT ![p] = "accept_collaborator"]
               /\ lastOp' = lastOp
    /\ UNCHANGED <<boards, collaborators, requests, request_seq, invites,
                   outbox, held, cardVars, typeVars>>

\* accept(), lines 201-205: BoardCollaborator.objects.create(...)
accept_create_collaborator(p) ==
    /\ pc[p] = "accept_collaborator"
    /\ LET inst == accept_board_collaborator(held[p], local[p].invited_user)
       IN IF BoardCollaborator_full_clean(collaborators, inst)
          THEN /\ collaborators' = collaborators \cup {inst}
               /\ local' = [local EXCEPT ![p].board_collaborator = inst.board]
               /\ pc' = [pc EXCEPT ![p] = "accept_register"]
               /\ lastOp' = lastOp
          ELSE /\ UNCHANGED <<collaborators>>
               /\ local' = [local EXCEPT ![p] = NoLocal]
               /\ pc' = [pc EXCEPT ![p] = "idle"]
               /\ lastOp' = Done("accept", p, "ValidationError")
    /\ UNCHANGED <<boards, requests, request_seq, invited_users, invites,
                   outbox, held, cardVars, typeVars>>

\* accept(), line 207: invited_user.board_collaborators.add(board_collaborator)
accept_register(p) ==
    /\ pc[p] = "accept_register"
    /\ invited_users' =
         {IF iu.id = local[p].invited_user
          THEN [iu EXCEPT !.board_collaborators =
                            @ \cup {local[p].board_collaborator}]
          ELSE iu : iu \in invited_users}
    /\ pc' = [pc EXCEPT ![p] = "accept_invite"]
    /\ UNCHANGED <<boards, collaborators, requests, request_seq, invites,
                   outbox, held, local, lastOp, cardVars, typeVars>>

\* accept(), line 209: invited_user.send_invite()
accept_send_invite(p, fails) ==
    /\ pc[p] = "accept_invite"
    /\ IF fails
       THEN /\ UNCHANGED invites
            /\ local' = [local EXCEPT ![p] = NoLocal]
            /\ pc' = [pc EXCEPT ![p] = "idle"]
            /\ lastOp' = Done("accept", p, "InviteError")
       ELSE /\ invites' = invites \cup {local[p].invited_user}
            /\ pc' = [pc EXCEPT ![p] = "accept_delete"]
            /\ UNCHANGED <<local, lastOp>>
    /\ UNCHANGED <<boards, collaborators, requests, request_seq,
                   invited_users, outbox, held, cardVars, typeVars>>

\* accept(), line 211: self.delete()
accept_delete(p) ==
    /\ pc[p] = "accept_delete"
    /\ pc' = [pc EXCEPT ![p] = "idle"]
    /\ IF DeleteRaises(held[p])
       THEN /\ UNCHANGED <<requests, held>>
            /\ lastOp' = Done("accept", p, "AssertionError")
       ELSE /\ requests' = DeleteRow(requests, held[p])
            /\ held' = [held EXCEPT ![p].id = Null]
            /\ lastOp' = Done("accept", p, "ok")
    /\ local' = [local EXCEPT ![p] = NoLocal]
    /\ UNCHANGED <<boards, collaborators, request_seq, invited_users, invites,
                   outbox, cardVars, typeVars>>

\* BoardCollaboratorRequest.reject
reject(p) ==
    /\ Idle(p)
    /\ HasInstance(p)
    /\ IF DeleteRaises(held[p])
       THEN /\ UNCHANGED <<requests, held>>
            /\ lastOp' = Done("reject", p, "AssertionError")
       ELSE /\ requests' = DeleteRow(requests, held[p])
            /\ held' = [held EXCEPT ![p].id = Null]
            /\ lastOp' = Done("reject", p, "ok")
    /\ UNCHANGED <<boards, collaborators, request_seq, invited_users, invites,
                   outbox, pc, local, cardVars, typeVars>>

\* the message notify_account_owner hands to send_mail
OwnerMail(inst) ==
    [subject |-> "Blimp Board Collaborator Request",
     message |-> <<inst.email, " wants to join your board">>,
     from_email |-> "from@example.com",
     recipient_list |-> <<inst.email>>,
     fail_silently |-> FALSE]

\* BoardCollaboratorRequest.notify_account_owner
notify_account_owner(p, fails) ==
    /\ Idle(p)
    /\ HasInstance(p)
    /\ Cardinality(outbox) < MaxMails
    /\ IF fails
       THEN /\ UNCHANGED outbox
            /\ lastOp' = Done("notify_account_owner", p,
                              IF OwnerMail(held[p]).fail_silently
                              THEN "ok" ELSE "SMTPException")
       ELSE /\ outbox' = outbox \cup {OwnerMail(held[p])}
            /\ lastOp' = Done("notify_account_owner", p, "ok")
    /\ UNCHANGED <<boards, collaborators, requests, request_seq,
                   invited_users, invites, held, pc, local, cardVars, typeVars>>

\* a view asks board.is_user_collaborator(user, permission)
check_collaborator(p, board, user, permission) ==
    /\ Idle(p)
    /\ board \in BoardIds
    /\ lastOp' = Done("is_user_collaborator", p,
                      IF is_user_collaborator(board, user, permission)
                      THEN "True" ELSE "False")
    /\ UNCHANGED <<storeVars, pc, held, local, cardVars, typeVars>>

\* ----------------------------------------------------------------- Card
TYPE_CHOICES == {"note", "file", "stack"}

\* file_size = None
NoSize == -1

CardIds == {c.id : c \in cards}

CardOf(id) == CHOOSE c \in cards : c.id = id

StackOf(rows, id) == (CHOOSE c \in rows : c.id = id).stack

\* a Card() with the field defaults
BlankCard ==
    [id |-> Null, type |-> "note", content |-> "", origin_url |-> "",
     thumbnail_sm_path |-> "", thumbnail_md_path |-> "",
     thumbnail_lg_path |-> "", file_size |-> NoSize, mime_type |-> None,
     stack |-> Null]

\* field values a caller saves a card with
CardInputs ==
    {[BlankCard EXCEPT !.type = t, !.content = c] :
        t \in TYPE_CHOICES, c \in {"", "http://f"}}
    \cup {[BlankCard EXCEPT !.type = "stack", !.origin_url = "http://o"],
          [BlankCard EXCEPT !.type = "stack", !.thumbnail_sm_path = "sm"],
          [BlankCard EXCEPT !.type = "stack", !.thumbnail_md_path = "md"],
          [BlankCard EXCEPT !.type = "stack", !.thumbnail_lg_path = "lg"],
          [BlankCard EXCEPT !.type = "stack", !.file_size = 5],
          [BlankCard EXCEPT !.type = "stack", !.file_size = 0],
          [BlankCard EXCEPT !.type = "stack", !.mime_type = "image/png"]}

\* the cards a stack board is built from
StackInputs ==
    {[BlankCard EXCEPT !.type = "note", !.content = "text"],
     [BlankCard EXCEPT !.type = "stack"]}

\* Python truth of a text column and of an integer column
TruthyText(v) == v # "" /\ v # None
TruthyInt(v) == v # NoSize /\ v # 0

\* Card.clean
Card_clean(c) ==
    IF c.type # "stack"
    THEN c.content # ""
    ELSE ~(\/ TruthyText(c.origin_url)
           \/ TruthyText(c.content)
           \/ TruthyText(c.thumbnail_sm_path)
           \/ TruthyText(c.thumbnail_md_path)
           \/ TruthyText(c.thumbnail_lg_path)
           \/ TruthyInt(c.file_size)
           \/ TruthyText(c.mime_type))

\* Card.pre_save: full_clean()
Card_pre_save(c) == c.type \in TYPE_CHOICES /\ Card_clean(c)

PREVIEW_SIZES == <<"200x200", "500x500", "800x800">>

\* post_save that does not look at `created`
Card_post_save_EverySave(queue, instance, created) ==
    IF instance.type = "file"
    THEN Append(queue, [url |-> instance.content, sizes |-> PREVIEW_SIZES,
                        metadata |-> [cardId |-> instance.id]])
    ELSE queue

\* Card.post_save: the queue_previews calls after this save
Card_post_save(queue, instance, created) ==
    IF created /\ instance.type = "file"
    THEN Append(queue, [url |-> instance.content, sizes |-> PREVIEW_SIZES,
                        metadata |-> [cardId |-> instance.id]])
    ELSE queue

boardVars == <<boards, collaborators, requests, request_seq, invited_users,
               invites, outbox, pc, held, local>>

\* Card(...).save() of a new card: pre_save, INSERT, post_save(created=True);
\* limit caps the number of stored cards
CreateCard(input, limit) ==
    /\ Cardinality(cards) < limit
    /\ input.type = "stack" =>
         Cardinality({c \in cards : c.type = "stack"}) < MaxStacks
    /\ IF Card_pre_save(input)
       THEN LET row == [input EXCEPT !.id = Cardinality(cards) + 1]
            IN /\ cards' = cards \cup {row}
               /\ previews' = Card_post_save(previews, row, TRUE)
               /\ lastOp' = DoneCard("create_card", <<row.id>>, "ok")
       ELSE /\ UNCHANGED <<cards, previews>>
            /\ lastOp' = DoneCard("create_card", <<Null>>, "ValidationError")
    /\ UNCHANGED <<through, notified, boardVars, typeVars>>

\* card.save() of a stored card: pre_save, UPDATE, post_save(created=False)
UpdateCard(id, input) ==
    /\ id \in CardIds
    /\ LET old == CardOf(id)
           row == [input EXCEPT !.id = id, !.stack = old.stack]
       IN IF Card_pre_save(row)
          THEN /\ cards' = (cards \ {old}) \cup {row}
               /\ previews' = Card_post_save(previews, row, FALSE)
               /\ lastOp' = DoneCard("update_card", <<id>>, "ok")
          ELSE /\ UNCHANGED <<cards, previews>>
               /\ lastOp' = DoneCard("update_card", <<id>>, "ValidationError")
    /\ UNCHANGED <<through, notified, boardVars, typeVars>>

\* the cards and comments notify_comment_created is called with
CommentedCards == {[id |-> 1, board |-> b] : b \in 1..MaxBoards}
Comments == {[id |-> 1, content |-> "nice"]}

\* recipients that keep the acting user
comment_recipients_WithActor(rows, card, user) ==
    {u \in Users : \E c \in rows : c.board = card.board /\ c.user = u}

\* notify_comment_created, lines 126-127:
\* User.objects.filter(boardcollaborator__board__id=...).exclude(id=user.id)
comment_recipients(rows, card, user) ==
    {u \in Users : \E c \in rows : c.board = card.board /\ c.user = u}
        \ {user}

\* Card.notify_comment_created(user, comment)
notify_comment_created(card, user, comment) ==
    /\ card.board \in BoardIds
    /\ Len(notified) < MaxNotified
    /\ notified' = Append(notified,
          [actor |-> user,
           recipients |-> comment_recipients(collaborators, card, user),
           label |-> "card_comment_created",
           extra_context |-> [action_object |-> comment,
                              description |-> comment.content,
                              target |-> card]])
    /\ lastOp' = DoneCard("notify_comment_created", <<card.id>>, "ok")
    /\ UNCHANGED <<cards, through, previews, boardVars, typeVars>>

\* cards_changed whose post_clear does not filter on stack=instance
cards_changed_ClearEvery(rows, instance, action, pk_set) ==
    IF action = "post_add"
    THEN {IF c.id \in pk_set THEN [c EXCEPT !.stack = instance] ELSE c :
            c \in rows}
    ELSE IF action = "post_remove"
    THEN {IF c.id \in pk_set /\ c.stack = instance
          THEN [c EXCEPT !.stack = Null] ELSE c : c \in rows}
    ELSE IF action = "post_clear"
    THEN {[c EXCEPT !.stack = Null] : c \in rows}
    ELSE rows

\* cards_changed whose post_remove does not filter on stack=instance
cards_changed_RemoveAny(rows, instance, action, pk_set) ==
    IF action = "post_add"
    THEN {IF c.id \in pk_set THEN [c EXCEPT !.stack = instance] ELSE c :
            c \in rows}
    ELSE IF action = "post_remove"
    THEN {IF c.id \in pk_set
          THEN [c EXCEPT !.stack = Null] ELSE c : c \in rows}
    ELSE IF action = "post_clear"
    THEN {IF c.stack = instance THEN [c EXCEPT !.stack = Null] ELSE c :
            c \in rows}
    ELSE rows

\* receiver of m2m_changed for Card.cards.through
cards_changed(rows, instance, action, pk_set) ==
    IF action = "post_add"
    THEN {IF c.id \in pk_set THEN [c EXCEPT !.stack = instance] ELSE c :
            c \in rows}
    ELSE IF action = "post_remove"
    THEN {IF c.id \in pk_set /\ c.stack = instance
          THEN [c EXCEPT !.stack = Null] ELSE c : c \in rows}
    ELSE IF action = "post_clear"
    THEN {IF c.stack = instance THEN [c EXCEPT !.stack = Null] ELSE c :
            c \in rows}
    ELSE rows

\* the sets of cards one add() or remove() call on a stack is given: cards
\* that are not stacks themselves
ObjSets(stack) ==
    {o \in SUBSET {c.id : c \in {d \in cards : d.type # "stack"}} :
        Cardinality(o) \in 1..MaxObjs}

IsStack(id) == \E c \in cards : c.id = id /\ c.type = "stack"

MembersIn(rel, id) == {t[2] : t \in {u \in rel : u[1] = id}}

Members(id) == MembersIn(through, id)

\* stack.cards.add(*objs): rows for the ids not yet related, then post_add
cards_add(stack, objs) ==
    /\ IsStack(stack)
    /\ objs \in ObjSets(stack)
    /\ LET new_ids == objs \ Members(stack)
       IN /\ through' = through \cup {<<stack, x>> : x \in new_ids}
          /\ cards' = cards_changed(cards, stack, "post_add", new_ids)
    /\ lastOp' = DoneCard("cards_add", <<stack>>, "ok")
    /\ UNCHANGED <<previews, notified, boardVars, typeVars>>

\* stack.cards.remove(*objs): delete the rows, then post_remove
cards_remove(stack, objs) ==
    /\ IsStack(stack)
    /\ objs \in ObjSets(stack)
    /\ through' = through \ {<<stack, x>> : x \in objs}
    /\ cards' = cards_changed(cards, stack, "post_remove", objs)
    /\ lastOp' = DoneCard("cards_remove", <<stack>>, "ok")
    /\ UNCHANGED <<previews, notified, boardVars, typeVars>>

\* stack.cards.clear(): delete every row of the stack, then post_clear
cards_clear(stack) ==
    /\ IsStack(stack)
    /\ through' = {t \in through : t[1] # stack}
    /\ cards' = cards_changed(cards, stack, "post_clear", {})
    /\ lastOp' = DoneCard("cards_clear", <<stack>>, "ok")
    /\ UNCHANGED <<previews, notified, boardVars, typeVars>>

\* ---------------------------------------------------- notification types
NOTIFICATION_TYPES ==
    <<
      [label |-> "card_comment_created", display |-> "Comment created",
       description |-> "commented",
       email |-> TRUE, notification |-> TRUE],
      [label |-> "signup_request_created", display |-> "Signup Request Created",
       description |-> "invited",
       email |-> TRUE, notification |-> FALSE],
      [label |-> "user_invited", display |-> "Invited to join account",
       description |-> "invited",
       email |-> TRUE, notification |-> FALSE],
      [label |-> "board_collaborator_requested", display |-> "Blimp Board Collaborator Request",
       description |-> "wants to join your board",
       email |-> TRUE, notification |-> FALSE],
      [label |-> "password_reset_requested", display |-> "Password Reset",
       description |-> "reset your password",
       email |-> TRUE, notification |-> FALSE],
      [label |-> "card_created", display |-> "Card created",
       description |-> "created a card on board",
       email |-> FALSE, notification |-> TRUE],
      [label |-> "card_featured", display |-> "Card highlighted",
       description |-> "highlighted",
       email |-> FALSE, notification |-> TRUE],
      [label |-> "card_stack_created", display |-> "Stack created",
       description |-> "created a stack",
       email |-> FALSE, notification |-> TRUE],
      [label |-> "board_collaborator_created", display |-> "New board collaborator",
       description |-> "is now a collaborator on board",
       email |-> TRUE, notification |-> TRUE]
    >>

\* labels a caller asks for: those of the list and two that are not in it
LookupLabels ==
    {NOTIFICATION_TYPES[i].label : i \in 1..Len(NOTIFICATION_TYPES)}
        \cup {"nonexistent", ""}

\* what a call returns: <<type>> for a dict of the list, <<>> for None
RECURSIVE find_type(_, _, _)
find_type(types, label, i) ==
    IF i > Len(types) THEN <<>>
    ELSE IF types[i].label = label THEN <<types[i]>>
    ELSE find_type(types, label, i + 1)

\* a lookup that falls back to the first type of the list
get_notification_type_Default(types, label) ==
    IF find_type(types, label, 1) = <<>> THEN <<types[1]>>
    ELSE find_type(types, label, 1)

\* get_notification_type(label): the loop over NOTIFICATION_TYPES
get_notification_type(types, label) == find_type(types, label, 1)

\* a caller asks for the type of a label
lookup_type(label) ==
    /\ Len(lookups) < MaxLookups
    /\ lookups' = Append(lookups,
          [label |-> label,
           returned |-> get_notification_type(notification_types, label)])
    /\ lastOp' = DoneCard("get_notification_type", <<>>, "ok")
    /\ UNCHANGED <<notification_types, cardVars, boardVars>>

\* ------------------------------------------------------ specifications
Init ==
    /\ boards = {}
    /\ collaborators = {}
    /\ requests = {}
    /\ request_seq = 0
    /\ invited_users = {}
    /\ invites = {}
    /\ outbox = {}
    /\ pc = [p \in Procs |-> "idle"]
    /\ held = [p \in Procs |-> NoRequest]
    /\ local = [p \in Procs |-> NoLocal]
    /\ lastOp = Done("init", "p1", "ok")
    /\ cards = {}
    /\ through = {}
    /\ previews = <<>>
    /\ notified = <<>>
    /\ notification_types = NOTIFICATION_TYPES
    /\ lookups = <<>>

QueryPermissions == {None, READ_PERMISSION, WRITE_PERMISSION}

\* the request workflow with one caller: calls are serialized
Next ==
    \/ CreateBoard("p1", "a1")
    \/ \E n \in CallerNames, e \in CallerEmails, u \in CallerUsers,
          b \in 1..MaxBoards : save_clean("p1", n, e, u, b)
    \/ save_insert("p1")
    \/ \E r \in requests : get_request("p1", r)
    \/ \E f \in BOOLEAN : accept_create_invited_user("p1", f)
    \/ accept_create_collaborator("p1")
    \/ accept_register("p1")
    \/ \E f \in BOOLEAN : accept_send_invite("p1", f)
    \/ accept_delete("p1")
    \/ reject("p1")

Spec == Init /\ [][Next]_vars

\* saving requests and notifying about them
NextNotify ==
    \/ \E a \in Accounts : CreateBoard("p1", a)
    \/ \E n \in CallerNames, e \in CallerEmails, u \in CallerUsers,
          b \in 1..MaxBoards : save_clean("p1", n, e, u, b)
    \/ save_insert("p1")
    \/ \E f \in BOOLEAN : notify_account_owner("p1", f)

SpecNotify == Init /\ [][NextNotify]_vars

\* boards, collaborator rows and the permission query
NextBoards ==
    \/ \E a \in Accounts : CreateBoard("p1", a)
    \/ \E b \in 1..MaxBoards : UpdateBoard("p1", b)
    \/ \E b \in 1..MaxBoards, u \in Users \cup {None}, iu \in 0..MaxInvited,
          perm \in PERMISSION_CHOICES : SaveCollaborator("p1", b, u, iu, perm)
    \/ \E b \in 1..MaxBoards, u \in Users, perm \in QueryPermissions :
          check_collaborator("p1", b, u, perm)

SpecBoards == Init /\ [][NextBoards]_vars

\* saving cards: validation and the preview request
NextCards ==
    \/ \E input \in CardInputs : CreateCard(input, MaxCards)
    \/ \E id \in 1..MaxCards, input \in CardInputs : UpdateCard(id, input)

SpecCards == Init /\ [][NextCards]_vars

\* stacks: membership of a stack's cards and the back-reference
NextStacks ==
    \/ \E input \in StackInputs : CreateCard(input, MaxStackCards)
    \/ \E s \in CardIds : \E objs \in ObjSets(s) : cards_add(s, objs)
    \/ \E s \in CardIds : \E objs \in ObjSets(s) : cards_remove(s, objs)
    \/ \E s \in CardIds : cards_clear(s)

SpecStacks == Init /\ [][NextStacks]_vars

\* comments on the cards of boards with collaborators
NextComments ==
    \/ \E a \in Accounts : CreateBoard("p1", a)
    \/ \E b \in 1..MaxBoards, u \in Users \cup {None}, iu \in 0..MaxInvited,
          perm \in PERMISSION_CHOICES : SaveCollaborator("p1", b, u, iu, perm)
    \/ \E card \in CommentedCards, u \in Users, comment \in Comments :
          notify_comment_created(card, u, comment)

SpecComments == Init /\ [][NextComments]_vars

\* lookups in the notification type list
NextTypes == \E label \in LookupLabels : lookup_type(label)

SpecTypes == Init /\ [][NextTypes]_vars

\* the request workflow with two callers whose statements interleave;
\* InitConc is the store once account a1's first board is saved
InitConc ==
    LET b == [id |-> 1, account |-> "a1", is_shared |-> FALSE]
    IN /\ boards = {b}
       /\ collaborators = create_owner_collaborator({}, b, TRUE)
       /\ requests = {}
       /\ request_seq = 0
       /\ invited_users = {}
       /\ invites = {}
       /\ outbox = {}
       /\ pc = [p \in Procs |-> "idle"]
       /\ held = [p \in Procs |-> NoRequest]
       /\ local = [p \in Procs |-> NoLocal]
       /\ lastOp = Done("create_board", "p1", "ok")
       /\ cards = {}
       /\ through = {}
       /\ previews = <<>>
       /\ notified = <<>>
       /\ notification_types = NOTIFICATION_TYPES
       /\ lookups = <<>>

NextConc ==
    \/ \E p \in Procs, e \in {"bob@x", "new@x", "eve@x"} :
          save_clean(p, <<"Zed", "Zane">>, e, None, 1)
    \/ \E p \in Procs : save_insert(p)
    \/ \E p \in Procs, r \in requests : get_request(p, r)
    \/ \E p \in Procs : accept_create_invited_user(p, FALSE)
    \/ \E p \in Procs : accept_create_collaborator(p)
    \/ \E p \in Procs : accept_register(p)
    \/ \E p \in Procs, f \in BOOLEAN : accept_send_invite(p, f)
    \/ \E p \in Procs : accept_delete(p)

SpecConc == InitConc /\ [][NextConc]_vars

\* --------------------------------------------------------------- claims
Pending(inst) == inst \in requests

\* the accept() call of p returns normally in this step
AcceptReturns(p) == accept_delete(p) /\ ~DeleteRaises(held[p])

\* the accept() call of p raises in this step
AcceptRaises(p) ==
    \/ accept_create_invited_user(p, TRUE)
    \/ accept_create_collaborator(p) /\ pc'[p] = "idle"
    \/ accept_send_invite(p, TRUE)
    \/ accept_delete(p) /\ DeleteRaises(held[p])

\* C1: an accept() of a pending request that completes has added exactly one
\* InvitedUser, carrying the request's first_name, last_name, email and user,
\* the board's account and the account owner as creator, and exactly one
\* BoardCollaborator linking the request's board to that invited user with
\* permission 'read'; the request is gone afterwards.
C1_AcceptMaterializes ==
    [][\A p \in Procs :
        (AcceptReturns(p) /\ Pending(held[p])) =>
            LET r == held[p]
                new_invited == {iu \in invited_users' :
                                  iu.id > local[p].invited_before}
                new_collaborators ==
                    {c \in collaborators' :
                       c.invited_user \in {iu.id : iu \in new_invited}}
            IN /\ Cardinality(invited_users') = local[p].invited_before + 1
               /\ Cardinality(collaborators') = local[p].collaborators_before + 1
               /\ \A iu \in new_invited :
                     /\ iu.first_name = r.first_name
                     /\ iu.last_name = r.last_name
                     /\ iu.email = r.email
                     /\ iu.user = r.user
                     /\ iu.account = BoardOf(r.board).account
                     /\ iu.created_by = AccountOwnerUser[BoardOf(r.board).account]
                     /\ new_collaborators =
                          {[board |-> r.board, user |-> None,
                            invited_user |-> iu.id, permission |-> "read"]}
               /\ ~\E q \in requests' : q.id = r.id]_vars

C1_Witness ==
    /\ lastOp.op = "accept" /\ lastOp.result = "ok"
    /\ \E iu \in invited_users : \E c \in collaborators :
          /\ c.invited_user = iu.id /\ c.permission = "read"
          /\ iu.user # None
    /\ held[lastOp.proc] \notin requests

\* C2: accept() is atomic: when one of its steps fails, the request is still
\* pending and no InvitedUser or BoardCollaborator made by that call is in
\* the store.
C2_AcceptAtomic ==
    [][\A p \in Procs :
        (AcceptRaises(p) /\ Pending(held[p])) =>
            /\ Pending(held[p])'
            /\ ~\E iu \in invited_users' : iu.id = local[p].invited_user
            /\ ~\E c \in collaborators' :
                  /\ c.invited_user # Null
                  /\ c.invited_user = local[p].invited_user]_vars

\* C7: notify_account_owner() sends the 'wants to join your board' message to
\* the owner of the request's board, not to the requester, and a failure of
\* the mail sender is raised to the caller.
C7_NotifiesOwner ==
    [][\A p \in Procs :
        /\ notify_account_owner(p, FALSE) =>
             \A m \in outbox' \ outbox :
                /\ m.message = <<held[p].email, " wants to join your board">>
                /\ m.recipient_list =
                     <<UserEmail[BoardOwnerUser(held[p].board)]>>
        /\ notify_account_owner(p, TRUE) =>
             /\ lastOp'.result # "ok"
             /\ outbox' = outbox]_vars

\* C8: reject() on a pending request deletes that request and nothing else:
\* invited users, collaborators, boards and the other requests are unchanged
\* and no invite or mail is sent.
C8_RejectFrame ==
    [][\A p \in Procs :
        (reject(p) /\ Pending(held[p])) =>
            /\ requests' = requests \ {held[p]}
            /\ UNCHANGED <<boards, collaborators, invited_users, invites,
                           outbox>>]_vars

C8_Witness ==
    /\ lastOp.op = "reject" /\ lastOp.result = "ok"
    /\ held[lastOp.proc] \notin requests
    /\ \E r \in requests : r.board = held[lastOp.proc].board
    /\ invited_users # {}

\* C4: creating a board leaves exactly one collaborator row for it, held by
\* the account owner's user with permission 'write'; saving a stored board
\* adds no row; every board has exactly one owner row, with 'write'.
C4_OwnerRows(b) ==
    {c \in collaborators : c.board = b.id /\ c.user = AccountOwnerUser[b.account]}

C4_OwnerCollaborator ==
    /\ [](\A b \in boards :
            /\ Cardinality(C4_OwnerRows(b)) = 1
            /\ \A c \in C4_OwnerRows(b) : c.permission = "write")
    /\ [][/\ \A a \in Accounts :
               CreateBoard("p1", a) =>
                   \E b \in boards' \ boards :
                       {c \in collaborators' : c.board = b.id} =
                           {[board |-> b.id, user |-> AccountOwnerUser[a],
                             invited_user |-> Null, permission |-> "write"]}
          /\ \A id \in 1..MaxBoards :
               UpdateBoard("p1", id) => collaborators' = collaborators]_vars

C4_Witness ==
    /\ lastOp.op = "update_board"
    /\ \E b1, b2 \in boards : b1.account # b2.account /\ b1.is_shared
    /\ \E c \in collaborators : c.permission = "read"

\* C5: is_user_collaborator(b, u) without a permission is true iff a row for
\* (b, u) exists; with 'read' iff a row with read or write exists; with
\* 'write' iff a row with write exists; so write implies read; and asking
\* changes no row.
C5_PermissionQuery ==
    /\ [](\A b \in BoardIds, u \in Users :
            LET rows == {c \in collaborators : c.board = b /\ c.user = u}
            IN /\ is_user_collaborator(b, u, None) <=> rows # {}
               /\ is_user_collaborator(b, u, "read") <=>
                    \E c \in rows : c.permission \in {"read", "write"}
               /\ is_user_collaborator(b, u, "write") <=>
                    \E c \in rows : c.permission = "write"
               /\ is_user_collaborator(b, u, "write") =>
                    is_user_collaborator(b, u, "read"))
    /\ [][\A b \in 1..MaxBoards, u \in Users, perm \in QueryPermissions :
            check_collaborator("p1", b, u, perm) => UNCHANGED storeVars]_vars

C5_Witness ==
    /\ lastOp.op = "is_user_collaborator" /\ lastOp.result = "False"
    /\ \E b \in BoardIds, u \in Users :
          /\ is_user_collaborator(b, u, "read")
          /\ ~is_user_collaborator(b, u, "write")
    /\ \E b \in BoardIds, u \in Users : is_user_collaborator(b, u, "write")

\* C6: no two stored requests share an (email, board) pair or a (user, board)
\* pair, also when the statements of concurrent saves interleave; a save that
\* would store such a second request fails and leaves the stored requests
\* as they were.
C6_Conflicts(inst) ==
    \E r \in requests :
        /\ r.board = inst.board
        /\ r.email = inst.email \/ (inst.user # None /\ r.user = inst.user)

C6_RequestsUnique ==
    /\ [](\A r1, r2 \in requests :
            r1 # r2 =>
              /\ ~(r1.email = r2.email /\ r1.board = r2.board)
              /\ ~(r1.user # None /\ r1.user = r2.user /\ r1.board = r2.board))
    /\ [][\A p \in Procs :
            (save_insert(p) /\ C6_Conflicts(held[p])) =>
                /\ requests' = requests
                /\ lastOp'.result = "IntegrityError"]_vars

C6_Witness ==
    /\ lastOp.op = "save" /\ lastOp.result = "IntegrityError"
    /\ Cardinality(requests) = 1

\* C3: after any sequence of add / remove / clear on the member sets of the
\* stacks, a card's stack is S exactly when the card is in S.cards.
C3_BackReference ==
    \A x \in cards : \A s \in cards :
        s.type = "stack" => (x.stack = s.id <=> <<s.id, x.id>> \in through)

\* Every step of the card specifications is one call, which lastOp records
\* with the card it was made on; the step formulas below read it from lastOp'.
AddStep(s, objs) ==
    lastOp' = DoneCard("cards_add", <<s>>, "ok") /\ cards_add(s, objs)

RemoveStep(s, objs) ==
    lastOp' = DoneCard("cards_remove", <<s>>, "ok") /\ cards_remove(s, objs)

ClearStep(s) ==
    lastOp' = DoneCard("cards_clear", <<s>>, "ok") /\ cards_clear(s)

C10_PreviewOnCreate ==
    [][/\ lastOp'.op = "create_card" =>
           IF lastOp'.result = "ok"
              /\ (CHOOSE c \in cards' : c.id = lastOp'.args[1]).type = "file"
           THEN /\ lastOp'.args[1] \notin CardIds
                /\ previews' =
                     Append(previews,
                            [url |-> (CHOOSE c \in cards' :
                                        c.id = lastOp'.args[1]).content,
                             sizes |-> <<"200x200", "500x500", "800x800">>,
                             metadata |-> [cardId |-> lastOp'.args[1]]])
           ELSE previews' = previews
      /\ lastOp'.op = "update_card" => previews' = previews]_vars

\* a stored file card, whose preview was requested at creation, was updated
C10_Witness ==
    /\ lastOp.op = "update_card" /\ lastOp.result = "ok"
    /\ Len(previews) = 1
    /\ previews[1].metadata.cardId = lastOp.args[1]
    /\ CardOf(lastOp.args[1]).type = "file"
    /\ \E c \in cards : c.type = "stack"

\* C11: saving a BoardCollaborator with both user and invited_user set, or
\* with neither set, fails with a validation error and writes no row; every
\* stored BoardCollaborator has exactly one of user and invited_user set.
C11_OneOfUserInvited ==
    /\ [](\A c \in collaborators :
            (c.user # None) # (c.invited_user # Null))
    /\ [][lastOp'.op = "save_collaborator" =>
            \A b \in 1..MaxBoards, perm \in PERMISSION_CHOICES :
               /\ \A u \in Users, iu \in 1..MaxInvited :
                     SaveCollaborator("p1", b, u, iu, perm) =>
                        /\ collaborators' = collaborators
                        /\ lastOp'.result = "ValidationError"
               /\ SaveCollaborator("p1", b, None, Null, perm) =>
                     /\ collaborators' = collaborators
                     /\ lastOp'.result = "ValidationError"]_vars

C11_Witness ==
    /\ lastOp.op = "save_collaborator"
    /\ lastOp.result = "ValidationError"
    /\ lastOp.args = <<"Both user and invited_user cannot be set together.">>
    /\ \E c \in collaborators : c.invited_user # Null /\ c.user = None
    /\ \E c \in collaborators : c.user # None /\ c.invited_user = Null

\* C12: saving a request whose user is unset and whose email is empty fails
\* with a validation error and stores nothing, whatever users exist.
C12_EmptyRequestFails ==
    [][\A n \in CallerNames, b \in 1..MaxBoards :
          save_clean("p1", n, "", None, b) =>
             /\ lastOp'.op = "save"
             /\ lastOp'.result = "ValidationError"
             /\ pc'["p1"] = "idle"
             /\ requests' = requests]_vars

\* C13: on save of a request, an unset user is bound to the user having the
\* request's email when there is one and stays unset when there is none; a
\* request with a user, given or found, is stored with that user's
\* first_name, last_name and email in place of the caller's values.
C13_BindsAndOverwrites ==
    /\ [](\A r \in requests :
            /\ r.user # None =>
                  /\ r.first_name = UserFirstName[r.user]
                  /\ r.last_name = UserLastName[r.user]
                  /\ r.email = UserEmail[r.user]
            /\ r.user = None => UsersByEmail(r.email) = {})
    /\ [][(pc["p1"] = "idle" /\ pc'["p1"] = "save_insert") =>
            \A n \in CallerNames, e \in CallerEmails, u \in CallerUsers,
               b \in 1..MaxBoards :
               save_clean("p1", n, e, u, b) =>
                  LET h == held'["p1"]
                  IN /\ u # None => h.user = u
                     /\ (u = None /\ UsersByEmail(e) # {}) =>
                           h.user \in UsersByEmail(e)
                     /\ (u = None /\ UsersByEmail(e) = {}) =>
                           /\ h.user = None
                           /\ h.first_name = n[1] /\ h.last_name = n[2]
                           /\ h.email = e
                     /\ h.user # None =>
                           /\ h.first_name = UserFirstName[h.user]
                           /\ h.last_name = UserLastName[h.user]
                           /\ h.email = UserEmail[h.user]]_vars
    /\ [][(pc["p1"] = "save_insert" /\ lastOp'.result = "ok"
            /\ save_insert("p1")) =>
            requests' = requests \cup
                          {[held["p1"] EXCEPT !.id = request_seq + 1]}]_vars

C13_Witness ==
    /\ lastOp.op = "save" /\ lastOp.result = "ok"
    /\ \E r \in requests :
          r.user = "u2" /\ r.first_name = "Bob" /\ r.email = "bob@x"
    /\ \E r \in requests :
          r.user = None /\ r.first_name = "Zed" /\ r.email = "new@x"

\* C14: a card that fails validation is never written: every stored card
\* that is not a stack has content, and every stored stack has none of
\* origin_url, content, the thumbnail paths, file_size (0 included) and
\* mime_type set.
C14_CardsValid ==
    \A c \in cards :
       /\ c.type # "stack" => c.content # ""
       /\ c.type = "stack" =>
             /\ c.origin_url = ""
             /\ c.content = ""
             /\ c.thumbnail_sm_path = ""
             /\ c.thumbnail_md_path = ""
             /\ c.thumbnail_lg_path = ""
             /\ c.file_size = NoSize
             /\ c.mime_type = None

\* C15: notify_comment_created(user, comment) sends one notification
\* 'card_comment_created' whose recipients are the users having a
\* collaborator row on the card's board at the call, without the acting
\* user, also when the acting user is a collaborator of that board.
C15_CommentRecipients ==
    [][lastOp'.op = "notify_comment_created" =>
          /\ Len(notified') = Len(notified) + 1
          /\ LET n == notified'[Len(notified')]
                 on_board == {c.user : c \in {d \in collaborators :
                                 d.board = n.extra_context.target.board
                                 /\ d.user # None}}
             IN /\ n.label = "card_comment_created"
                /\ n.recipients = on_board \ {n.actor}
                /\ n.actor \notin n.recipients
                /\ n.extra_context.description =
                      n.extra_context.action_object.content
          /\ UNCHANGED storeVars]_vars

C15_Witness ==
    /\ lastOp.op = "notify_comment_created"
    /\ Len(notified) > 0
    /\ LET n == notified[Len(notified)]
       IN /\ \E c \in collaborators :
                c.board = n.extra_context.target.board /\ c.user = n.actor
          /\ n.recipients # {}
          /\ \E c \in collaborators :
                c.board = n.extra_context.target.board /\ c.user = None

\* C16: get_notification_type(label) returns the type of the list whose
\* label is the argument when there is one, for 'card_comment_created' one
\* with email = true, and returns None without raising for a label that is
\* not in the list; the call leaves the list as it was.
C16_TypeLookup ==
    /\ [](\A k \in 1..Len(lookups) :
            LET called == lookups[k]
                known == {i \in 1..Len(NOTIFICATION_TYPES) :
                            NOTIFICATION_TYPES[i].label = called.label}
            IN /\ known # {} =>
                    /\ Len(called.returned) = 1
                    /\ \E i \in known :
                          called.returned[1] = NOTIFICATION_TYPES[i]
                    /\ called.returned[1].label = called.label
               /\ known = {} => called.returned = <<>>
               /\ called.label = "card_comment_created" =>
                    called.returned[1].email = TRUE)
    /\ [](notification_types = NOTIFICATION_TYPES)
    /\ [][lastOp'.op = "get_notification_type" =>
            /\ notification_types' = notification_types
            /\ lastOp'.result = "ok"]_vars

C16_Witness ==
    /\ lastOp.op = "get_notification_type"
    /\ \E k \in 1..Len(lookups) :
          /\ lookups[k].label = "card_comment_created"
          /\ lookups[k].returned # <<>>
    /\ \E k \in 1..Len(lookups) :
          /\ lookups[k].label = "nonexistent"
          /\ lookups[k].returned = <<>>

\* C17: accepted and rejected are terminal: a statement of accept() or
\* reject() called on a request that was accepted or rejected before, and so
\* is no longer stored, creates no InvitedUser, creates no BoardCollaborator
\* and sends no invite.
C17_Terminal ==
    [][\A p \in Procs :
        (/\ HasInstance(p) /\ ~Pending(held[p])
         /\ \/ accept_create_invited_user(p, FALSE)
            \/ accept_create_collaborator(p)
            \/ accept_register(p)
            \/ accept_send_invite(p, FALSE)
            \/ reject(p)) =>
            UNCHANGED <<invited_users, collaborators, invites>>]_vars

\* C18: when the statements of two accept() calls on the same pending
\* request interleave, that request still gets one InvitedUser and one
\* BoardCollaborator and at most one invite: two callers holding the same
\* stored request never both have created an InvitedUser, or both a
\* BoardCollaborator, or both sent an invite, for it.
C18_ConcurrentAcceptOnce ==
    \A p, q \in Procs :
       (p # q /\ held[p].id # Null /\ held[p].id = held[q].id) =>
          /\ ~(local[p].invited_user # Null /\ local[q].invited_user # Null)
          /\ ~(/\ local[p].board_collaborator # Null
               /\ local[q].board_collaborator # Null)
          /\ ~(/\ local[p].invited_user \in invites
               /\ local[q].invited_user \in invites)

\* C19: no statement of accept() changes the value of
\* is_user_collaborator(board, user, permission) for any board, user and
\* permission: the row accept() creates has no user, also when the request
\* was bound to a registered user.
C19_AcceptKeepsPermissions ==
    [][\A p \in Procs :
        (/\ \/ pc[p] \notin {"idle", "save_insert"}
            \/ pc'[p] \notin {"idle", "save_insert"}
            \/ lastOp'.op = "accept"
         /\ \/ \E f \in BOOLEAN : accept_create_invited_user(p, f)
            \/ accept_create_collaborator(p)
            \/ accept_register(p)
            \/ \E f \in BOOLEAN : accept_send_invite(p, f)
            \/ accept_delete(p)) =>
            \A b \in BoardIds, u \in Users, perm \in QueryPermissions :
               is_user_collaborator(b, u, perm)' =
                  is_user_collaborator(b, u, perm)]_vars

C19_Witness ==
    /\ lastOp.op = "accept" /\ lastOp.result = "ok"
    /\ \E iu \in invited_users : \E c \in collaborators :
          /\ iu.user # None
          /\ c.invited_user = iu.id /\ c.user = None
          /\ ~is_user_collaborator(c.board, iu.user, None)
          /\ ~\E r \in requests : r.user = iu.user /\ r.board = c.board

\* C20: a remove or a clear on the cards of stack S leaves the stack of
\* every card that points to another stack T as it was, and no add, remove
\* or clear on S changes the stack of a card that is neither among the
\* cards the call was given nor pointing to S.
C20_OnlyOwnBackReferences ==
    [][LET s == lastOp'.args[1]
           kept(x) == StackOf(cards', x) = StackOf(cards, x)
       IN /\ lastOp'.op \in {"cards_remove", "cards_clear"} =>
               \A x \in CardIds :
                  StackOf(cards, x) \notin {Null, s} => kept(x)
          /\ lastOp'.op = "cards_add" =>
               \A objs \in ObjSets(s) :
                  cards_add(s, objs) =>
                     \A x \in CardIds \ objs :
                        StackOf(cards, x) # s => kept(x)
          /\ lastOp'.op = "cards_remove" =>
               \A objs \in ObjSets(s) :
                  cards_remove(s, objs) =>
                     \A x \in CardIds \ objs :
                        StackOf(cards, x) # s => kept(x)
          /\ lastOp'.op = "cards_clear" =>
               \A x \in CardIds : StackOf(cards, x) # s => kept(x)]_vars

\* after a clear on a stack, a card still points to another stack and is a
\* member of it, and the cleared stack has no member
C20_Witness ==
    /\ lastOp.op = "cards_clear"
    /\ Members(lastOp.args[1]) = {}
    /\ \E x \in CardIds :
          /\ StackOf(cards, x) \notin {Null, lastOp.args[1]}
          /\ x \in Members(StackOf(cards, x))
    /\ \E y \in cards : y.type # "stack" /\ y.stack = Null

====
